---- MODULE Spec2Model ----
(***************************************************************************)
(* Sorted sector-info collections (types.go) and the aggregate-seal        *)
(* benchmark (agg_test.go) of filecoin-ffi, as a state machine.            *)
(*                                                                         *)
(* A Go slice is a header {array, offset, length, capacity} over a backing *)
(* array, so two slices may share storage.  The heap keeps one backing     *)
(* array per allocation site:                                              *)
(*   "in"   the caller's records, passed to the constructor                *)
(*   "c"    the array made by NewSortedPrivateSectorInfo or by decoding    *)
(*          stored bytes into the collection under test                    *)
(*   "dec"  the array made by decoding the bytes MarshalJSON produced      *)
(*   "res"  the array made by SplitSortedPrivateSectorInfo                 *)
(* Sequences are 1-based here and 0-based in the source.                   *)
(***************************************************************************)
EXTENDS Integers, Sequences, FiniteSets, TLC

(* ---------------------------- bounds ---------------------------------- *)

\* longest caller-supplied record sequence (sort.Slice uses insertion sort
\* below 12 elements, so the bound must stay below 12)
MaxLen == 3
\* how many element writes the caller performs through slices it holds
MaxWrites == 1
\* spare capacity json.Unmarshal may leave behind the decoded elements
CapSlack == 1
\* how many VerifyAggregateSeals calls are recorded
MaxCalls == 3

(* ------------------------- record domains ----------------------------- *)

\* cid.Cid as its binary form (Cid.Bytes()); << >> is cid.Undef
Cids == { << >>, <<1, 2>>, <<2>> }

\* publicSectorInfo: one record per content identifier, and a second record
\* with the identifier <<2>>
PublicRecords ==
    [PoStProofType : {13}, SealedCID : Cids, SectorNum : {1}]
        \cup {[PoStProofType |-> 13, SealedCID |-> <<2>>, SectorNum |-> 10]}

PrivateRecord(number, cacheDir) ==
    [SealProof |-> 8, SectorNumber |-> number, SealedCID |-> <<1, 2>>,
     CacheDirPath |-> cacheDir, PoStProofType |-> 13,
     SealedSectorPath |-> <<"/", "s">>]

\* PrivateSectorInfo (proof.SectorInfo embedded): two records with sector
\* number 7, told apart by their cache directory, and one with 12
PrivateRecords ==
    { PrivateRecord(7, <<"/", "a">>), PrivateRecord(7, <<"/", "\\", "b">>),
      PrivateRecord(12, <<"/", "a">>) }

\* the zero value of PrivateSectorInfo, found in capacity beyond the length
ZeroPrivate ==
    [SealProof |-> 0, SectorNumber |-> 0, SealedCID |-> << >>,
     CacheDirPath |-> << >>, PoStProofType |-> 0, SealedSectorPath |-> << >>]

RECURSIVE SeqsUpTo(_, _)
SeqsUpTo(S, n) ==
    IF n = 0 THEN { << >> }
    ELSE LET shorter == SeqsUpTo(S, n - 1)
         IN  shorter \cup { Append(s, x) : s \in { t \in shorter : Len(t) = n - 1 }, x \in S }

Swap(s, i, j) == [s EXCEPT ![i] = s[j], ![j] = s[i]]

(* ------------------- newSortedPublicSectorInfo ------------------------ *)

\* bytes.Compare: -1, 0 or 1 by lexicographic byte order
RECURSIVE BytesCompare(_, _)
BytesCompare(a, b) ==
    IF a = << >> /\ b = << >> THEN 0
    ELSE IF a = << >> THEN -1
    ELSE IF b = << >> THEN 1
    ELSE IF Head(a) < Head(b) THEN -1
    ELSE IF Head(a) > Head(b) THEN 1
    ELSE BytesCompare(Tail(a), Tail(b))

\* fn with a fault: the comparison turned round
fn_reversed(x, y) == BytesCompare(x.SealedCID, y.SealedCID) = 1

\* fn, the less function handed to sort.Slice
fn(x, y) == BytesCompare(x.SealedCID, y.SealedCID) = -1

\* inner loop of insertion sort: for j := i; j > a && less(j, j-1); j--
RECURSIVE SinkDown(_, _)
SinkDown(s, j) ==
    IF j > 1 /\ fn(s[j], s[j - 1]) THEN SinkDown(Swap(s, j, j - 1), j - 1) ELSE s

RECURSIVE InsertionSortFrom(_, _)
InsertionSortFrom(s, i) ==
    IF i > Len(s) THEN s ELSE InsertionSortFrom(SinkDown(s, i), i + 1)

\* sort.Slice(sectorInfo[:], fn) on fewer than 12 elements
SortSlice(s) == InsertionSortFrom(s, 2)

(* ------------------- NewSortedPrivateSectorInfo ----------------------- *)

\* DedupInner with a fault: every record is kept
DedupInner_keepall(acc, rec, j, n) == Append(acc, rec)

\* for j := range remove_duplicate_privSector { ... }: the range length n is
\* taken once, before the first iteration; the body appends sectorInfo[i]
\* each time the record at j has another sector number
RECURSIVE DedupInner(_, _, _, _)
DedupInner(acc, rec, j, n) ==
    IF j > n THEN acc
    ELSE DedupInner(IF ~(acc[j].SectorNumber = rec.SectorNumber)
                        THEN Append(acc, rec) ELSE acc,
                    rec, j + 1, n)

\* for i := range sectorInfo { ... }
RECURSIVE DedupOuter(_, _, _)
DedupOuter(acc, sectorInfo, i) ==
    IF i > Len(sectorInfo) THEN acc
    ELSE DedupOuter(DedupInner(acc, sectorInfo[i], 1, Len(acc)), sectorInfo, i + 1)

\* remove_duplicate_privSector after the first loop; it starts as make(.., 0)
remove_duplicate_privSector(sectorInfo) == DedupOuter(<< >>, sectorInfo, 1)

\* one pass of the exchange sort: for j := 0; j < new_sector_len-i-1; j++
RECURSIVE BubblePass(_, _, _, _)
BubblePass(s, j, last, flag) ==
    IF j > last THEN [s |-> s, flag |-> flag]
    ELSE IF s[j].SectorNumber > s[j + 1].SectorNumber
         THEN BubblePass(Swap(s, j, j + 1), j + 1, last, TRUE)
         ELSE BubblePass(s, j + 1, last, flag)

\* for i := 0; i < new_sector_len; i++ { ...; if !flag { break } }
RECURSIVE BubbleSort(_, _)
BubbleSort(s, i) ==
    IF i >= Len(s) THEN s
    ELSE LET p == BubblePass(s, 1, Len(s) - i - 1, FALSE)
         IN  IF ~p.flag THEN p.s ELSE BubbleSort(p.s, i + 1)

\* the sequence NewSortedPrivateSectorInfo stores in f
PrivateBuild(sectorInfo) ==
    LET kept == remove_duplicate_privSector(sectorInfo)
    IN  IF Len(kept) < 2 THEN kept ELSE BubbleSort(kept, 0)

(* ---------------------- encoding/json, go-cid ------------------------ *)

\* a JSON text as its token sequence; every token carries its characters
Punct(x) == [t |-> "punct", v |-> <<x>>]
Key(name) == [t |-> "key", v |-> <<name>>]
Number(digits) == [t |-> "number", v |-> digits]
String(chars) == [t |-> "string", v |-> chars]
Null == [t |-> "null", v |-> << >>]

Digits == <<"0", "1", "2", "3", "4", "5", "6", "7", "8", "9">>

\* strconv.AppendUint: the decimal digits of n
RECURSIVE Itoa(_)
Itoa(n) == IF n < 10 THEN <<Digits[n + 1]>> ELSE Append(Itoa(n \div 10), Digits[(n % 10) + 1])

DigitValue(ch) == CHOOSE d \in 0..9 : Digits[d + 1] = ch

\* strconv.ParseUint on a digit sequence
RECURSIVE Atoi(_)
Atoi(ds) ==
    IF ds = << >> THEN 0
    ELSE 10 * Atoi(SubSeq(ds, 1, Len(ds) - 1)) + DigitValue(ds[Len(ds)])

\* the string encoder: a quote or a backslash gets a backslash before it
RECURSIVE Escape(_)
Escape(chars) ==
    IF chars = << >> THEN << >>
    ELSE (IF Head(chars) \in {"\"", "\\"} THEN <<"\\", Head(chars)>> ELSE <<Head(chars)>>)
             \o Escape(Tail(chars))

\* the string decoder: a backslash makes the next character literal
RECURSIVE Unescape(_)
Unescape(chars) ==
    IF chars = << >> THEN << >>
    ELSE IF Head(chars) = "\\" /\ Len(chars) >= 2
         THEN <<chars[2]>> \o Unescape(SubSeq(chars, 3, Len(chars)))
         ELSE <<Head(chars)>> \o Unescape(Tail(chars))

\* the RFC 4648 alphabet of multibase base32 (lower case, no padding)
Base32Alphabet ==
    <<"a", "b", "c", "d", "e", "f", "g", "h", "i", "j", "k", "l", "m", "n", "o", "p",
      "q", "r", "s", "t", "u", "v", "w", "x", "y", "z", "2", "3", "4", "5", "6", "7">>

\* the bits of v in w places, most significant first
BitsOfValue(v, w) == [i \in 1..w |-> (v \div (2 ^ (w - i))) % 2]

RECURSIVE BitsValue(_)
BitsValue(bits) ==
    IF bits = << >> THEN 0
    ELSE 2 * BitsValue(SubSeq(bits, 1, Len(bits) - 1)) + bits[Len(bits)]

RECURSIVE ConcatBits(_, _)
ConcatBits(vals, w) ==
    IF vals = << >> THEN << >> ELSE BitsOfValue(Head(vals), w) \o ConcatBits(Tail(vals), w)

Base32Encode(bytes) ==
    LET bits == ConcatBits(bytes, 8)
        pad == (5 - (Len(bits) % 5)) % 5
        padded == bits \o [i \in 1..pad |-> 0]
    IN  [k \in 1..(Len(padded) \div 5) |->
            Base32Alphabet[BitsValue(SubSeq(padded, 5 * k - 4, 5 * k)) + 1]]

Base32Index(ch) == CHOOSE d \in 0..31 : Base32Alphabet[d + 1] = ch

Base32Decode(chars) ==
    LET bits == ConcatBits([k \in 1..Len(chars) |-> Base32Index(chars[k])], 5)
    IN  [k \in 1..(Len(bits) \div 8) |-> BitsValue(SubSeq(bits, 8 * k - 7, 8 * k))]

\* Cid.MarshalJSON: null for cid.Undef, else {"/": "<multibase base32>"}
CidMarshalJSON(id) ==
    IF id = << >> THEN <<Null>>
    ELSE <<Punct("{"), Key("/"), Punct(":"), String(<<"b">> \o Base32Encode(id)), Punct("}")>>

\* Cid.UnmarshalJSON on a parsed value: null gives cid.Undef
CidUnmarshalJSON(val) ==
    IF val.k = "link" /\ val.v # << >> /\ Head(val.v) = "b"
    THEN Base32Decode(Tail(val.v))
    ELSE << >>

\* one publicSectorInfo as a JSON object, fields in declaration order
EncodePublic(r) ==
    <<Punct("{"), Key("PoStProofType"), Punct(":"), Number(Itoa(r.PoStProofType)),
      Punct(","), Key("SealedCID"), Punct(":")>>
        \o CidMarshalJSON(r.SealedCID)
        \o <<Punct(","), Key("SectorNum"), Punct(":"), Number(Itoa(r.SectorNum)), Punct("}")>>

\* one PrivateSectorInfo as a JSON object: the embedded proof.SectorInfo
\* fields come first
EncodePrivate(r) ==
    <<Punct("{"), Key("SealProof"), Punct(":"), Number(Itoa(r.SealProof)),
      Punct(","), Key("SectorNumber"), Punct(":"), Number(Itoa(r.SectorNumber)),
      Punct(","), Key("SealedCID"), Punct(":")>>
        \o CidMarshalJSON(r.SealedCID)
        \o <<Punct(","), Key("CacheDirPath"), Punct(":"), String(Escape(r.CacheDirPath)),
             Punct(","), Key("PoStProofType"), Punct(":"), Number(Itoa(r.PoStProofType)),
             Punct(","), Key("SealedSectorPath"), Punct(":"),
             String(Escape(r.SealedSectorPath)), Punct("}")>>

\* the elements of an array, a comma between two of them
RECURSIVE EncodeElements(_, _)
EncodeElements(objects, i) ==
    IF i > Len(objects) THEN << >>
    ELSE (IF i > 1 THEN <<Punct(",")>> ELSE << >>) \o objects[i] \o EncodeElements(objects, i + 1)

\* json.Marshal of a slice whose elements encode as objects: null for a nil
\* slice, else an array
EncodeSlice(isNil, objects) ==
    IF isNil THEN <<Null>>
    ELSE <<Punct("[")>> \o EncodeElements(objects, 1) \o <<Punct("]")>>

\* json.Marshal(s.f) for a []publicSectorInfo
MarshalPublicSlice(isNil, s) == EncodeSlice(isNil, [i \in DOMAIN s |-> EncodePublic(s[i])])

\* json.Marshal(s.f) for a []PrivateSectorInfo
MarshalPrivateSlice(isNil, s) == EncodeSlice(isNil, [i \in DOMAIN s |-> EncodePrivate(s[i])])

\* the members of one object, from the key at pos on: name -> parsed value;
\* a value is a number, a string, null or a link object {"/": "..."}
RECURSIVE ParseMembers(_, _, _)
ParseMembers(toks, pos, acc) ==
    LET name == toks[pos].v[1]
        first == toks[pos + 2]
        isLink == first = Punct("{")
        val == IF isLink THEN [k |-> "link", v |-> toks[pos + 5].v]
               ELSE [k |-> first.t, v |-> first.v]
        after == IF isLink THEN pos + 7 ELSE pos + 3
        acc2 == (name :> val) @@ acc
    IN  IF toks[after] = Punct(",") THEN ParseMembers(toks, after + 1, acc2)
        ELSE [fields |-> acc2, next |-> after + 1]

Absent == [k |-> "null", v |-> << >>]

Field(fields, name) == IF name \in DOMAIN fields THEN fields[name] ELSE Absent

NumberField(fields, name) ==
    IF Field(fields, name).k = "number" THEN Atoi(Field(fields, name).v) ELSE 0

StringField(fields, name) ==
    IF Field(fields, name).k = "string" THEN Unescape(Field(fields, name).v) ELSE << >>

DecodePublic(fields) ==
    [PoStProofType |-> NumberField(fields, "PoStProofType"),
     SealedCID |-> CidUnmarshalJSON(Field(fields, "SealedCID")),
     SectorNum |-> NumberField(fields, "SectorNum")]

DecodePrivate(fields) ==
    [SealProof |-> NumberField(fields, "SealProof"),
     SectorNumber |-> NumberField(fields, "SectorNumber"),
     SealedCID |-> CidUnmarshalJSON(Field(fields, "SealedCID")),
     CacheDirPath |-> StringField(fields, "CacheDirPath"),
     PoStProofType |-> NumberField(fields, "PoStProofType"),
     SealedSectorPath |-> StringField(fields, "SealedSectorPath")]

\* the objects of an array, from the token after "[" or after "," on, each
\* as its members
RECURSIVE DecodeElements(_, _, _)
DecodeElements(toks, pos, acc) ==
    IF toks[pos] = Punct("]") THEN acc
    ELSE LET obj == ParseMembers(toks, pos + 1, << >>)
             acc2 == Append(acc, obj.fields)
         IN  IF toks[obj.next] = Punct(",")
             THEN DecodeElements(toks, obj.next + 1, acc2)
             ELSE acc2

\* json.Unmarshal into a slice: null leaves the slice as it was (nil here),
\* an array gives its elements in the order of the text
DecodeSlice(toks) ==
    IF toks = <<Null>> THEN [isNil |-> TRUE, objects |-> << >>]
    ELSE [isNil |-> FALSE, objects |-> DecodeElements(toks, 2, << >>)]

(* ------------------------------ state --------------------------------- *)

VARIABLES
    mode,              \* which caller runs: "public", "private", "stored", "aggregate"
    heap,              \* backing arrays: allocation site -> sequence of records
    input,             \* the caller's slice, the constructor's sectorInfo argument
    c,                 \* field f of the collection under test
    origin,            \* how c came to be: "none", "build", "decode"
    view,              \* the slice the last Values() call returned
    viewOf,            \* the collection it was called on: "none", "c", "res"
    wire,              \* JSON text the caller holds (stored bytes or MarshalJSON's result)
    dec,               \* field f of the collection decoded from MarshalJSON's result
    res,               \* field f of the collection SplitSortedPrivateSectorInfo returned
    writes,            \* element writes the caller has performed so far
    buildLog,          \* the constructor call: its argument and its result's values
    splitLog,          \* the split call: bounds, outcome, source and result values
    wireLog,           \* the serialization round: stage and the values serialized
    verifyingContext,  \* the external verifier's fixed context: record -> verdict
    bench,             \* BenchmarkAggregate: position, decoded record, b.N, i, b.Fatal's error
    calls              \* every VerifyAggregateSeals call so far, with its result

collVars == <<heap, input, c, origin, view, viewOf, wire, dec, res, writes,
              buildLog, splitLog, wireLog>>
aggVars == <<verifyingContext, bench, calls>>
vars == <<mode, heap, input, c, origin, view, viewOf, wire, dec, res, writes,
          buildLog, splitLog, wireLog, verifyingContext, bench, calls>>

Slice(arr, off, len, cap) == [arr |-> arr, off |-> off, len |-> len, cap |-> cap]

\* a nil slice: no backing array
NilSlice == Slice("nil", 0, 0, 0)

NoArrays == [a \in {"in", "c", "dec", "res"} |-> << >>]

Backing(h, s) == IF s.arr = "nil" THEN << >> ELSE h[s.arr]

\* the elements a slice shows: positions 0 .. len-1 of the source
Elems(h, s) == [i \in 1..s.len |-> Backing(h, s)[s.off + i]]

Records == IF mode = "public" THEN PublicRecords ELSE PrivateRecords

\* the record the caller writes into slices it holds
WrittenRecords ==
    IF mode = "public"
    THEN {[PoStProofType |-> 13, SealedCID |-> << >>, SectorNum |-> 1]}
    ELSE {PrivateRecord(7, <<"/", "\\", "b">>)}

ZeroPublic == [PoStProofType |-> 0, SealedCID |-> << >>, SectorNum |-> 0]

\* the records found in stored private collections
StoredRecords == { PrivateRecord(7, <<"/", "a">>), PrivateRecord(12, <<"/", "a">>) }

\* JSON texts of private collections a caller may hold in storage: any order,
\* duplicates included, since UnmarshalJSON checks neither
StoredWires ==
    { MarshalPrivateSlice(FALSE, s) : s \in SeqsUpTo(StoredRecords, MaxLen) }
        \cup { <<Null>> }

\* records the external verifier may be handed, and its verdicts on them
Aggregates == {"agg1", "agg2"}
Verdicts == {"valid", "invalid", "fault"}

NoBuild == [done |-> FALSE, arg |-> << >>, out |-> << >>]
NoSplit == [outcome |-> "none", start |-> 0, end |-> 0, src |-> << >>, res |-> << >>]
NoWire == [stage |-> "none", vals |-> << >>]
BenchStart == [pc |-> "open", agg |-> "none", N |-> 0, i |-> 0, err |-> "nil"]

InitCollections(m) ==
    /\ mode = m
    /\ c = NilSlice /\ origin = "none"
    /\ view = NilSlice /\ viewOf = "none"
    /\ dec = NilSlice /\ res = NilSlice
    /\ writes = 0
    /\ buildLog = NoBuild /\ splitLog = NoSplit /\ wireLog = NoWire
    /\ verifyingContext = [a \in Aggregates |-> "valid"]
    /\ bench = BenchStart /\ calls = << >>

\* a caller holding records of the public type
InitPublic ==
    /\ InitCollections("public")
    /\ \E s \in SeqsUpTo(PublicRecords, MaxLen) :
         /\ heap = [NoArrays EXCEPT !["in"] = s]
         /\ input \in (IF s = << >> THEN {NilSlice} ELSE {}) \cup {Slice("in", 0, Len(s), Len(s))}
    /\ wire = << >>

\* a caller holding records of the private type
InitPrivate ==
    /\ InitCollections("private")
    /\ \E s \in SeqsUpTo(PrivateRecords, MaxLen) :
         /\ heap = [NoArrays EXCEPT !["in"] = s]
         /\ input \in (IF s = << >> THEN {NilSlice} ELSE {}) \cup {Slice("in", 0, Len(s), Len(s))}
    /\ wire = << >>

\* a caller holding the stored JSON text of a private collection
InitStored ==
    /\ InitCollections("stored")
    /\ heap = NoArrays /\ input = NilSlice
    /\ wire \in StoredWires

\* the benchmark and other callers of the verifier
InitAggregate ==
    /\ mode = "aggregate"
    /\ heap = NoArrays /\ input = NilSlice /\ wire = << >>
    /\ c = NilSlice /\ origin = "none"
    /\ view = NilSlice /\ viewOf = "none"
    /\ dec = NilSlice /\ res = NilSlice
    /\ writes = 0
    /\ buildLog = NoBuild /\ splitLog = NoSplit /\ wireLog = NoWire
    /\ verifyingContext \in [Aggregates -> Verdicts]
    /\ bench = BenchStart /\ calls = << >>

Init == InitPublic \/ InitPrivate \/ InitStored \/ InitAggregate

\* a runtime panic ends the caller
Running == splitLog.outcome # "panic"

(* --------------------------- public variant ---------------------------- *)

\* newSortedPublicSectorInfo(sectorInfo...): sorts the argument's backing
\* array in place and stores the argument slice itself in f
newSortedPublicSectorInfo ==
    /\ mode = "public" /\ origin = "none"
    /\ heap' = [heap EXCEPT !["in"] = SortSlice(@)]
    /\ c' = input
    /\ origin' = "build"
    /\ buildLog' = [done |-> TRUE, arg |-> Elems(heap, input), out |-> Elems(heap', c')]
    /\ UNCHANGED <<mode, input, view, viewOf, wire, dec, res, writes, splitLog, wireLog>>
    /\ UNCHANGED aggVars

\* (*SortedPublicSectorInfo).Values: returns s.f itself
SortedPublicSectorInfo_Values ==
    /\ mode = "public" /\ origin # "none"
    /\ view' = c /\ viewOf' = "c"
    /\ UNCHANGED <<mode, heap, input, c, origin, wire, dec, res, writes,
                   buildLog, splitLog, wireLog>>
    /\ UNCHANGED aggVars

\* SortedPublicSectorInfo.MarshalJSON: json.Marshal(s.f)
SortedPublicSectorInfo_MarshalJSON ==
    /\ mode = "public" /\ origin # "none" /\ wireLog.stage = "none"
    /\ wire' = MarshalPublicSlice(c.arr = "nil", Elems(heap, c))
    /\ wireLog' = [stage |-> "marshalled", vals |-> Elems(heap, c)]
    /\ UNCHANGED <<mode, heap, input, c, origin, view, viewOf, dec, res, writes,
                   buildLog, splitLog>>
    /\ UNCHANGED aggVars

\* capacities json.Unmarshal may give a slice of n decoded elements
Capacities(n) == IF n = 0 THEN {0} ELSE n..(n + CapSlack)

\* UnmarshalPublicSlice with a fault: the decoder sorts what it read
UnmarshalPublicSlice_resorted(b) ==
    LET d == DecodeSlice(b)
    IN  [isNil |-> d.isNil,
         elems |-> SortSlice([i \in DOMAIN d.objects |-> DecodePublic(d.objects[i])])]

\* json.Unmarshal(b, &s.f) for a []publicSectorInfo
UnmarshalPublicSlice(b) ==
    LET d == DecodeSlice(b)
    IN  [isNil |-> d.isNil,
         elems |-> [i \in DOMAIN d.objects |-> DecodePublic(d.objects[i])]]

\* (*SortedPublicSectorInfo).UnmarshalJSON: json.Unmarshal(b, &s.f) into a
\* fresh collection
SortedPublicSectorInfo_UnmarshalJSON ==
    /\ mode = "public" /\ wireLog.stage = "marshalled"
    /\ \E d \in {UnmarshalPublicSlice(wire)} :
         \E cap \in Capacities(Len(d.elems)) :
           /\ heap' = [heap EXCEPT !["dec"] =
                          d.elems \o [i \in 1..(cap - Len(d.elems)) |-> ZeroPublic]]
           /\ dec' = IF d.isNil THEN NilSlice ELSE Slice("dec", 0, Len(d.elems), cap)
    /\ wireLog' = [wireLog EXCEPT !.stage = "decoded"]
    /\ UNCHANGED <<mode, input, c, origin, view, viewOf, wire, res, writes,
                   buildLog, splitLog>>
    /\ UNCHANGED aggVars

(* ---------------------- writes through held slices --------------------- *)

\* the caller assigns to an element of the slice Values() returned
WriteView ==
    /\ mode # "aggregate" /\ Running
    /\ viewOf # "none" /\ writes < MaxWrites
    /\ \E i \in 1..view.len, r \in WrittenRecords :
         heap' = [heap EXCEPT ![view.arr][view.off + i] = r]
    /\ writes' = writes + 1
    /\ UNCHANGED <<mode, input, c, origin, view, viewOf, wire, dec, res,
                   buildLog, splitLog, wireLog>>
    /\ UNCHANGED aggVars

\* the caller assigns to an element of the slice it passed to the constructor
WriteInput ==
    /\ mode \in {"public", "private"} /\ Running
    /\ origin = "build" /\ writes < MaxWrites
    /\ \E i \in 1..input.len, r \in WrittenRecords :
         heap' = [heap EXCEPT ![input.arr][input.off + i] = r]
    /\ writes' = writes + 1
    /\ UNCHANGED <<mode, input, c, origin, view, viewOf, wire, dec, res,
                   buildLog, splitLog, wireLog>>
    /\ UNCHANGED aggVars

(* --------------------------- private variant --------------------------- *)

\* NewSortedPrivateSectorInfo(sectorInfo...): builds remove_duplicate_privSector
\* in an array of its own, sorts it when it holds two records or more, and
\* stores it in f
NewSortedPrivateSectorInfo ==
    /\ mode = "private" /\ origin = "none"
    /\ LET f == PrivateBuild(Elems(heap, input))
       IN  /\ heap' = [heap EXCEPT !["c"] = f]
           /\ c' = Slice("c", 0, Len(f), Len(f))
           /\ buildLog' = [done |-> TRUE, arg |-> Elems(heap, input), out |-> f]
    /\ origin' = "build"
    /\ UNCHANGED <<mode, input, view, viewOf, wire, dec, res, writes, splitLog, wireLog>>
    /\ UNCHANGED aggVars

\* (*SortedPrivateSectorInfo).Values: returns s.f itself, of the collection
\* under test or of the split's result
SortedPrivateSectorInfo_Values ==
    /\ mode \in {"private", "stored"} /\ origin # "none" /\ Running
    /\ \/ view' = c /\ viewOf' = "c"
       \/ splitLog.outcome = "ok" /\ view' = res /\ viewOf' = "res"
    /\ UNCHANGED <<mode, heap, input, c, origin, wire, dec, res, writes,
                   buildLog, splitLog, wireLog>>
    /\ UNCHANGED aggVars

\* SortedPrivateSectorInfo.MarshalJSON: json.Marshal(s.f)
SortedPrivateSectorInfo_MarshalJSON ==
    /\ mode = "private" /\ origin # "none" /\ wireLog.stage = "none" /\ Running
    /\ wire' = MarshalPrivateSlice(c.arr = "nil", Elems(heap, c))
    /\ wireLog' = [stage |-> "marshalled", vals |-> Elems(heap, c)]
    /\ UNCHANGED <<mode, heap, input, c, origin, view, viewOf, dec, res, writes,
                   buildLog, splitLog>>
    /\ UNCHANGED aggVars

\* json.Unmarshal(b, &s.f) for a []PrivateSectorInfo
UnmarshalPrivateSlice(b) ==
    LET d == DecodeSlice(b)
    IN  [isNil |-> d.isNil,
         elems |-> [i \in DOMAIN d.objects |-> DecodePrivate(d.objects[i])]]

\* (*SortedPrivateSectorInfo).UnmarshalJSON: json.Unmarshal(b, &s.f) into a
\* fresh collection: the stored text into the collection under test, or
\* MarshalJSON's result into a second collection
SortedPrivateSectorInfo_UnmarshalJSON ==
    /\ Running
    /\ \/ mode = "stored" /\ origin = "none"
       \/ mode = "private" /\ wireLog.stage = "marshalled"
    /\ \E d \in {UnmarshalPrivateSlice(wire)} :
         \E cap \in Capacities(Len(d.elems)) :
           LET array == d.elems \o [i \in 1..(cap - Len(d.elems)) |-> ZeroPrivate]
               f(a) == IF d.isNil THEN NilSlice ELSE Slice(a, 0, Len(d.elems), cap)
           IN  \/ /\ mode = "stored" /\ origin = "none"
                  /\ heap' = [heap EXCEPT !["c"] = array]
                  /\ c' = f("c")
                  /\ origin' = "decode"
                  /\ UNCHANGED <<dec, wireLog>>
               \/ /\ mode = "private" /\ wireLog.stage = "marshalled"
                  /\ heap' = [heap EXCEPT !["dec"] = array]
                  /\ dec' = f("dec")
                  /\ wireLog' = [wireLog EXCEPT !.stage = "decoded"]
                  /\ UNCHANGED <<c, origin>>
    /\ UNCHANGED <<mode, input, view, viewOf, wire, res, writes, buildLog, splitLog>>
    /\ UNCHANGED aggVars

\* AppendSubrange with a fault: the result is the slice expression itself,
\* sharing the source's array
AppendSubrange_aliased(h, src, start, end) ==
    [heap |-> h,
     f |-> Slice(src.arr, src.off + start, end - start, src.cap - start)]

\* AppendSubrange with a fault: the copy stops one element early
AppendSubrange_short(h, src, start, end) ==
    LET last == IF end > start THEN end - 1 ELSE end
    IN  [heap |-> [h EXCEPT !["res"] = SubSeq(Backing(h, src), src.off + start + 1, src.off + last)],
         f |-> Slice("res", 0, last - start, last - start)]

\* append(make([]PrivateSectorInfo, 0), sortPrivSectors.f[start:end]...):
\* the elements at positions start .. end-1 of the source's array, copied
\* into an array of the result's own
AppendSubrange(h, src, start, end) ==
    [heap |-> [h EXCEPT !["res"] = SubSeq(Backing(h, src), src.off + start + 1, src.off + end)],
     f |-> Slice("res", 0, end - start, end - start)]

\* SplitSortedPrivateSectorInfo(ctx, sortPrivSectors, start, end): the slice
\* expression panics unless 0 <= start <= end <= cap(sortPrivSectors.f);
\* otherwise the copy is returned with a nil error
SplitSortedPrivateSectorInfo ==
    /\ mode \in {"private", "stored"} /\ origin # "none"
    /\ splitLog.outcome = "none"
    /\ \E start \in -1..(c.cap + 1), end \in -1..(c.cap + 1) :
         IF start < 0 \/ end > c.cap \/ start > end
         THEN /\ splitLog' = [outcome |-> "panic", start |-> start, end |-> end,
                              src |-> Elems(heap, c), res |-> << >>]
              /\ UNCHANGED <<heap, res>>
         ELSE LET r == AppendSubrange(heap, c, start, end)
              IN  /\ heap' = r.heap
                  /\ res' = r.f
                  /\ splitLog' = [outcome |-> "ok", start |-> start, end |-> end,
                                  src |-> Elems(heap, c), res |-> Elems(r.heap, r.f)]
    /\ UNCHANGED <<mode, input, c, origin, view, viewOf, wire, dec, writes,
                   buildLog, wireLog>>
    /\ UNCHANGED aggVars

(* ------------------------- aggregate verification ---------------------- *)

\* VerifyAggregateSeals(aggregate): hands the record to the external verifier
\* and returns its verdict: (true, nil), or false with the cause
VerifyAggregateSeals(agg) ==
    [ok |-> verifyingContext[agg] = "valid",
     err |-> IF verifyingContext[agg] = "valid" THEN "nil" ELSE verifyingContext[agg]]

Call(who, agg) ==
    LET r == VerifyAggregateSeals(agg)
    IN  [who |-> who, agg |-> agg, ok |-> r.ok, err |-> r.err]

\* BenchmarkAggregate, lines 12-22: os.Open fails and b.Fatal ends the
\* benchmark (13-15), or the first JSON value of the file does not decode and
\* b.Fatal ends it (20-22), or agg is the record decoded from agg1.ndjson;
\* no call of VerifyAggregateSeals is made on the two failing paths
BenchDecode ==
    /\ mode = "aggregate" /\ bench.pc = "open"
    /\ \/ bench' = [bench EXCEPT !.pc = "fatal", !.err = "open"]
       \/ bench' = [bench EXCEPT !.pc = "fatal", !.err = "decode"]
       \/ \E a \in Aggregates : bench' = [bench EXCEPT !.pc = "warm", !.agg = a]
    /\ UNCHANGED <<verifyingContext, calls>>
    /\ UNCHANGED <<mode, collVars>>

\* BenchmarkAggregate, lines 23-25: the first call, its result dropped; the
\* framework has chosen b.N
BenchWarm ==
    /\ mode = "aggregate" /\ bench.pc = "warm" /\ Len(calls) < MaxCalls
    /\ calls' = Append(calls, Call("bench", bench.agg))
    /\ \E n \in 1..MaxCalls : bench' = [bench EXCEPT !.pc = "loop", !.N = n]
    /\ UNCHANGED verifyingContext
    /\ UNCHANGED <<mode, collVars>>

\* BenchmarkAggregate, lines 26-31: one iteration, b.Fatal when !ok
BenchIter ==
    /\ mode = "aggregate" /\ bench.pc = "loop"
    /\ IF bench.i < bench.N
       THEN /\ Len(calls) < MaxCalls
            /\ calls' = Append(calls, Call("bench", bench.agg))
            /\ bench' = IF Call("bench", bench.agg).ok
                        THEN [bench EXCEPT !.i = @ + 1]
                        ELSE [bench EXCEPT !.pc = "fatal",
                                           !.err = Call("bench", bench.agg).err]
       ELSE /\ bench' = [bench EXCEPT !.pc = "done"]
            /\ UNCHANGED calls
    /\ UNCHANGED verifyingContext
    /\ UNCHANGED <<mode, collVars>>

\* another caller of VerifyAggregateSeals, on any record, between the
\* benchmark's calls
OtherCall ==
    /\ mode = "aggregate" /\ Len(calls) < MaxCalls
    /\ \E a \in Aggregates : calls' = Append(calls, Call("other", a))
    /\ UNCHANGED <<verifyingContext, bench>>
    /\ UNCHANGED <<mode, collVars>>

(* --------------------------- specification ----------------------------- *)

Next ==
    \/ newSortedPublicSectorInfo
    \/ SortedPublicSectorInfo_Values
    \/ SortedPublicSectorInfo_MarshalJSON
    \/ SortedPublicSectorInfo_UnmarshalJSON
    \/ NewSortedPrivateSectorInfo
    \/ SortedPrivateSectorInfo_Values
    \/ SortedPrivateSectorInfo_MarshalJSON
    \/ SortedPrivateSectorInfo_UnmarshalJSON
    \/ SplitSortedPrivateSectorInfo
    \/ WriteView
    \/ WriteInput
    \/ BenchDecode
    \/ BenchWarm
    \/ BenchIter
    \/ OtherCall

Spec == Init /\ [][Next]_vars

(* ------------------------------ properties ----------------------------- *)

\* how many records of s carry the sector number n
CountSectorNumber(s, n) == Cardinality({ i \in DOMAIN s : s[i].SectorNumber = n })

\* ascending by the key of the running variant: the bytes of the sealed
\* content identifier (public), the sector number (private)
SortedByKey(s) ==
    \A i, j \in DOMAIN s :
        i < j => IF mode = "public"
                 THEN BytesCompare(s[i].SealedCID, s[j].SealedCID) <= 0
                 ELSE s[i].SectorNumber <= s[j].SectorNumber

\* no two records with the same sector number
DuplicateFree(s) ==
    \A i, j \in DOMAIN s :
        i # j => IF mode = "public"
                 THEN s[i].SectorNum # s[j].SectorNum
                 ELSE s[i].SectorNumber # s[j].SectorNumber

\* C1: every sector number of the argument of NewSortedPrivateSectorInfo
\* occurs exactly once in the values of the result.
C1_EverySectorNumberOnce ==
    (mode = "private" /\ buildLog.done) =>
        \A i \in DOMAIN buildLog.arg :
            CountSectorNumber(buildLog.out, buildLog.arg[i].SectorNumber) = 1

\* C2: no two elements of the values of a collection built by
\* NewSortedPrivateSectorInfo have the same sector number.
C2_NoSharedSectorNumber ==
    (mode = "private" /\ origin = "build") =>
        /\ DuplicateFree(buildLog.out)
        /\ DuplicateFree(Elems(heap, c))

\* NewSortedPrivateSectorInfo has returned for an argument of three records
\* in which a sector number occurs twice, first and second
C2_Witness ==
    /\ mode = "private" /\ origin = "build"
    /\ Len(buildLog.arg) = 3
    /\ buildLog.arg[1].SectorNumber = 7 /\ buildLog.arg[2].SectorNumber = 7
    /\ buildLog.arg[1] # buildLog.arg[2]
    /\ buildLog.arg[3].SectorNumber = 12

\* C3: the values of the collection a constructor returns are sorted
\* ascending by the variant's key; the empty and the one-element result count
\* as sorted.
C3_BuildSorted == buildLog.done => SortedByKey(buildLog.out)

\* newSortedPublicSectorInfo has returned for three records with three
\* different identifiers, given in an order that is not ascending
C3_Witness ==
    /\ mode = "public" /\ buildLog.done
    /\ Len(buildLog.arg) = 3
    /\ buildLog.arg[1].SealedCID = <<2>>
    /\ buildLog.arg[2].SealedCID = << >>
    /\ buildLog.arg[3].SealedCID = <<1, 2>>
    /\ buildLog.out # buildLog.arg

\* C4: for an argument already sorted by the key and free of duplicate
\* sector numbers, the values of the result are the argument, element by
\* element.
C4_BuildIdempotent ==
    (buildLog.done /\ SortedByKey(buildLog.arg) /\ DuplicateFree(buildLog.arg)) =>
        buildLog.out = buildLog.arg

\* C5: with 0 <= start <= end <= length of the source, the split returns
\* without error the elements start .. end-1 of the source, in order.
C5_SplitSubrange ==
    (/\ splitLog.outcome # "none"
     /\ 0 <= splitLog.start /\ splitLog.start <= splitLog.end
     /\ splitLog.end <= Len(splitLog.src)) =>
        /\ splitLog.outcome = "ok"
        /\ Len(splitLog.res) = splitLog.end - splitLog.start
        /\ \A k \in 1..(splitLog.end - splitLog.start) :
               splitLog.res[k] = splitLog.src[splitLog.start + k]

\* the split of a three-element collection at 1, 3 has returned
C5_Witness ==
    /\ splitLog.outcome = "ok"
    /\ Len(splitLog.src) = 3
    /\ splitLog.start = 1 /\ splitLog.end = 3
    /\ splitLog.src[2] # splitLog.src[3]

\* C6: with start < 0, end > length of the source or start > end, the split
\* returns a RangeError: it neither crashes nor returns a result.
C6_SplitRangeError ==
    (/\ splitLog.outcome # "none"
     /\ \/ splitLog.start < 0
        \/ splitLog.end > Len(splitLog.src)
        \/ splitLog.start > splitLog.end) =>
        splitLog.outcome = "RangeError"

\* C7: the split leaves the values of its source as they were; afterwards a
\* write through the result's slice leaves the source's values as they were
\* and a write through the source's slice leaves the result's.
C7_SplitCopies ==
    [][/\ (splitLog.outcome = "none" /\ splitLog'.outcome = "ok") =>
              Elems(heap', c') = Elems(heap, c)
       /\ (splitLog.outcome = "ok" /\ writes' > writes /\ viewOf = "res") =>
              Elems(heap', c') = Elems(heap, c)
       /\ (splitLog.outcome = "ok" /\ writes' > writes /\ viewOf = "c") =>
              Elems(heap', res') = Elems(heap, res)]_vars

\* after a split that returned two elements of a three-element source, the
\* caller has changed an element of the result
C7_Witness ==
    /\ splitLog.outcome = "ok" /\ writes > 0 /\ viewOf = "res"
    /\ Len(splitLog.src) = 3 /\ Len(splitLog.res) = 2
    /\ Elems(heap, res) # splitLog.res
    /\ Elems(heap, c) = splitLog.src

\* C8: decoding what MarshalJSON produced for a collection made by a
\* constructor gives a collection with the same values in the same order.
C8_RoundTrip ==
    (origin = "build" /\ wireLog.stage = "decoded") =>
        Elems(heap, dec) = wireLog.vals

\* a public collection of three records, one with the undefined identifier
\* and one with a two-digit sector number, has gone through MarshalJSON and
\* UnmarshalJSON
C8_Witness ==
    /\ mode = "public" /\ origin = "build" /\ wireLog.stage = "decoded"
    /\ Len(wireLog.vals) = 3
    /\ \E i, j \in 1..3 : wireLog.vals[i].SealedCID = << >> /\ wireLog.vals[j].SectorNum = 10

\* C9: whatever the caller does after the constructor returned, the values
\* of the collection are the sequence the constructor produced, sorted.
C9_NeverChangedInPlace ==
    origin = "build" =>
        /\ Elems(heap, c) = buildLog.out
        /\ SortedByKey(Elems(heap, c))

====
